---- MODULE Spec2Model ----
(***************************************************************************)
(* Model of quest2.cpp: a Station holding Lines and Platforms, each        *)
(* Platform recording the instants of its stoppage and through trains.     *)
(* Instants are std::time_t values in seconds.                             *)
(***************************************************************************)
EXTENDS Integers, Sequences, FiniteSets, TLC

\* ------------------------------------------------------------------ bounds
MaxPlatforms == 2        \* longest platforms vector explored
MaxPlatformID == 2       \* platform ids are drawn from 1..MaxPlatformID
MaxInstants == 3         \* most instants recorded on the whole station
MaxLines == 1            \* longest lines vector explored

PlatformIDs == 1..MaxPlatformID

\* Instants, some before the epoch, whose pairwise gaps include 1, 599, 600,
\* 1799 and 1800 seconds.
Times == {-1800, 0, 1200, 1799, 1800}

LineNames == {"Blue Line"}

\* ------------------------------------------------- program constants
StoppageWindow == 30 * 60
ThroughWindow == 10 * 60

\* ------------------------------------------------------------------ state
VARIABLES
    platforms,   \* Station::platforms, a vector of Platform
    lines,       \* Station::lines, a vector of line names
    last,        \* the call made last and how it ended
    before,      \* Station::platforms as it was when that call started
    prog,        \* the program being run: "none", "main" or "scenario"
    script,      \* the calls of that program, in order
    pc,          \* position in script of the next call
    results      \* outcomes of the booking calls made by the program

vars == <<platforms, lines, last, before, prog, script, pc, results>>

\* The variables of a running program; the free-running station leaves them.
drv == <<prog, script, pc, results>>

\* ---------------------------------------------------------------- helpers
Range(s) == {s[i] : i \in DOMAIN s}

\* std::abs on the double returned by difftime
Abs(x) == IF x < 0 THEN -x ELSE x

\* std::difftime(end, beginning): end - beginning in seconds
difftime(end, beginning) == end - beginning

\* Platform::Platform(int platformID)
Platform(platformID) ==
    [id |-> platformID, stoppageTimings |-> <<>>, throughTimings |-> <<>>]

\* Platform::getID
getID(p) == p.id

\* ------------------------------------------------- Platform's operations
\* Each returns the platform after the call and what the call did:
\* thrown = "none" with ret = TRUE, or thrown = "SchedulingConflictException".

\* Variants of canAccommodateStoppage with one fault each: only the most
\* recent stoppage is compared; the comparison is <= instead of <; the
\* through instants are compared as well.
canAccommodateStoppage_LastOnly(p, time) ==
    LET n == Len(p.stoppageTimings) IN
    IF n > 0 /\ Abs(difftime(p.stoppageTimings[n], time)) < StoppageWindow
    THEN [thrown |-> "SchedulingConflictException", ret |-> FALSE, platform |-> p]
    ELSE [thrown |-> "none", ret |-> TRUE,
          platform |-> [p EXCEPT !.stoppageTimings = Append(@, time)]]

canAccommodateStoppage_Inclusive(p, time) ==
    IF \E i \in DOMAIN p.stoppageTimings :
          Abs(difftime(p.stoppageTimings[i], time)) <= StoppageWindow
    THEN [thrown |-> "SchedulingConflictException", ret |-> FALSE, platform |-> p]
    ELSE [thrown |-> "none", ret |-> TRUE,
          platform |-> [p EXCEPT !.stoppageTimings = Append(@, time)]]

canAccommodateStoppage_BothClasses(p, time) ==
    IF \/ \E i \in DOMAIN p.stoppageTimings :
             Abs(difftime(p.stoppageTimings[i], time)) < StoppageWindow
       \/ \E i \in DOMAIN p.throughTimings :
             Abs(difftime(p.throughTimings[i], time)) < StoppageWindow
    THEN [thrown |-> "SchedulingConflictException", ret |-> FALSE, platform |-> p]
    ELSE [thrown |-> "none", ret |-> TRUE,
          platform |-> [p EXCEPT !.stoppageTimings = Append(@, time)]]

\* Platform::canAccommodateStoppage

canAccommodateStoppage(p, time) ==
    IF \E i \in DOMAIN p.stoppageTimings :
          Abs(difftime(p.stoppageTimings[i], time)) < StoppageWindow
    THEN [thrown |-> "SchedulingConflictException", ret |-> FALSE, platform |-> p]
    ELSE [thrown |-> "none", ret |-> TRUE,
          platform |-> [p EXCEPT !.stoppageTimings = Append(@, time)]]

\* Variants of canAccommodateThrough with one fault each: the window is 10
\* seconds (the * 60 is missing); the instant is recorded before the scan,
\* so a refused call keeps it; the stoppage window is used; an instant
\* equal to time is not counted as a conflict; the comparison is <=.
canAccommodateThrough_Seconds(p, time) ==
    IF \E i \in DOMAIN p.throughTimings :
          Abs(difftime(p.throughTimings[i], time)) < 10
    THEN [thrown |-> "SchedulingConflictException", ret |-> FALSE, platform |-> p]
    ELSE [thrown |-> "none", ret |-> TRUE,
          platform |-> [p EXCEPT !.throughTimings = Append(@, time)]]

canAccommodateThrough_PushFirst(p, time) ==
    IF \E i \in DOMAIN p.throughTimings :
          Abs(difftime(p.throughTimings[i], time)) < ThroughWindow
    THEN [thrown |-> "SchedulingConflictException", ret |-> FALSE,
          platform |-> [p EXCEPT !.throughTimings = Append(@, time)]]
    ELSE [thrown |-> "none", ret |-> TRUE,
          platform |-> [p EXCEPT !.throughTimings = Append(@, time)]]

canAccommodateThrough_StoppageWindow(p, time) ==
    IF \E i \in DOMAIN p.throughTimings :
          Abs(difftime(p.throughTimings[i], time)) < StoppageWindow
    THEN [thrown |-> "SchedulingConflictException", ret |-> FALSE, platform |-> p]
    ELSE [thrown |-> "none", ret |-> TRUE,
          platform |-> [p EXCEPT !.throughTimings = Append(@, time)]]

canAccommodateThrough_IgnoreSame(p, time) ==
    IF \E i \in DOMAIN p.throughTimings :
          /\ p.throughTimings[i] # time
          /\ Abs(difftime(p.throughTimings[i], time)) < ThroughWindow
    THEN [thrown |-> "SchedulingConflictException", ret |-> FALSE, platform |-> p]
    ELSE [thrown |-> "none", ret |-> TRUE,
          platform |-> [p EXCEPT !.throughTimings = Append(@, time)]]

canAccommodateThrough_Inclusive(p, time) ==
    IF \E i \in DOMAIN p.throughTimings :
          Abs(difftime(p.throughTimings[i], time)) <= ThroughWindow
    THEN [thrown |-> "SchedulingConflictException", ret |-> FALSE, platform |-> p]
    ELSE [thrown |-> "none", ret |-> TRUE,
          platform |-> [p EXCEPT !.throughTimings = Append(@, time)]]

\* Platform::canAccommodateThrough
canAccommodateThrough(p, time) ==
    IF \E i \in DOMAIN p.throughTimings :
          Abs(difftime(p.throughTimings[i], time)) < ThroughWindow
    THEN [thrown |-> "SchedulingConflictException", ret |-> FALSE, platform |-> p]
    ELSE [thrown |-> "none", ret |-> TRUE,
          platform |-> [p EXCEPT !.throughTimings = Append(@, time)]]

\* -------------------------------------------------- Station's operations
\* Variants of the lookup loop: only the first platform is compared (the
\* throw sits inside the loop); the last platform with the id is taken.
FindPlatform_FirstOnly(ps, platformID) ==
    IF ps # <<>> /\ getID(ps[1]) = platformID THEN 1 ELSE 0

FindPlatform_Last(ps, platformID) ==
    IF \E i \in DOMAIN ps : getID(ps[i]) = platformID
    THEN CHOOSE i \in DOMAIN ps :
            /\ getID(ps[i]) = platformID
            /\ \A j \in (i + 1)..Len(ps) : getID(ps[j]) # platformID
    ELSE 0

\* The range-for of scheduleStoppage / scheduleThrough: the index of the
\* first platform whose id is platformID, 0 when the loop falls through.
FindPlatform(ps, platformID) ==
    IF \E i \in DOMAIN ps : getID(ps[i]) = platformID
    THEN CHOOSE i \in DOMAIN ps :
            /\ getID(ps[i]) = platformID
            /\ \A j \in 1..(i - 1) : getID(ps[j]) # platformID
    ELSE 0

\* Station::addLine
addLine(ls, lineName) == Append(ls, lineName)

\* Variant of addPlatform that replaces a platform of the same id by a
\* fresh one instead of adding a second.
addPlatform_Replace(ps, platformID) ==
    IF \E i \in DOMAIN ps : ps[i].id = platformID
    THEN [i \in DOMAIN ps |->
             IF ps[i].id = platformID THEN Platform(platformID) ELSE ps[i]]
    ELSE Append(ps, Platform(platformID))

\* Variant of addPlatform that adds nothing when the id is already held.
addPlatform_SkipDuplicate(ps, platformID) ==
    IF \E i \in DOMAIN ps : ps[i].id = platformID
    THEN ps
    ELSE Append(ps, Platform(platformID))

\* Station::addPlatform
addPlatform(ps, platformID) == Append(ps, Platform(platformID))

\* Variant of scheduleStoppage that refuses a stoppage within the window of
\* a stoppage recorded on any platform of the station.
scheduleStoppage_StationWide(ps, platformID, time) ==
    LET i == FindPlatform(ps, platformID) IN
    IF i = 0
    THEN [result |-> "PlatformNotFoundException", platforms |-> ps]
    ELSE IF \E j \in DOMAIN ps : \E k \in DOMAIN ps[j].stoppageTimings :
               Abs(difftime(ps[j].stoppageTimings[k], time)) < StoppageWindow
         THEN [result |-> "false", platforms |-> ps]
         ELSE [result |-> "true",
               platforms |-> [ps EXCEPT ![i].stoppageTimings = Append(@, time)]]

\* Variant of scheduleStoppage that reports a missing platform as false.
scheduleStoppage_NotFoundFalse(ps, platformID, time) ==
    LET i == FindPlatform(ps, platformID) IN
    IF i = 0
    THEN [result |-> "false", platforms |-> ps]
    ELSE LET r == canAccommodateStoppage(ps[i], time) IN
         IF r.thrown = "SchedulingConflictException"
         THEN [result |-> "false", platforms |-> [ps EXCEPT ![i] = r.platform]]
         ELSE [result |-> IF r.ret THEN "true" ELSE "false",
               platforms |-> [ps EXCEPT ![i] = r.platform]]

\* Station::scheduleStoppage: result is "true", "false", or the name of the
\* exception that leaves the call.
scheduleStoppage(ps, platformID, time) ==
    LET i == FindPlatform(ps, platformID) IN
    IF i = 0
    THEN [result |-> "PlatformNotFoundException", platforms |-> ps]
    ELSE LET r == canAccommodateStoppage(ps[i], time) IN
         IF r.thrown = "SchedulingConflictException"
         THEN [result |-> "false", platforms |-> [ps EXCEPT ![i] = r.platform]]
         ELSE [result |-> IF r.ret THEN "true" ELSE "false",
               platforms |-> [ps EXCEPT ![i] = r.platform]]

\* Variant of scheduleThrough without the try/catch.
scheduleThrough_NoCatch(ps, platformID, time) ==
    LET i == FindPlatform(ps, platformID) IN
    IF i = 0
    THEN [result |-> "PlatformNotFoundException", platforms |-> ps]
    ELSE LET r == canAccommodateThrough(ps[i], time) IN
         IF r.thrown = "SchedulingConflictException"
         THEN [result |-> "SchedulingConflictException",
               platforms |-> [ps EXCEPT ![i] = r.platform]]
         ELSE [result |-> IF r.ret THEN "true" ELSE "false",
               platforms |-> [ps EXCEPT ![i] = r.platform]]

\* Station::scheduleThrough
scheduleThrough(ps, platformID, time) ==
    LET i == FindPlatform(ps, platformID) IN
    IF i = 0
    THEN [result |-> "PlatformNotFoundException", platforms |-> ps]
    ELSE LET r == canAccommodateThrough(ps[i], time) IN
         IF r.thrown = "SchedulingConflictException"
         THEN [result |-> "false", platforms |-> [ps EXCEPT ![i] = r.platform]]
         ELSE [result |-> IF r.ret THEN "true" ELSE "false",
               platforms |-> [ps EXCEPT ![i] = r.platform]]

\* ---------------------------------------------------------------- actions
RECURSIVE TotalInstants(_)
TotalInstants(ps) ==
    IF ps = <<>> THEN 0
    ELSE Len(Head(ps).stoppageTimings) + Len(Head(ps).throughTimings)
         + TotalInstants(Tail(ps))

NoCall == [op |-> "none", platformID |-> 0, time |-> 0, result |-> "none"]

\* Station::Station
Init ==
    /\ platforms = <<>>
    /\ lines = <<>>
    /\ last = NoCall
    /\ before = <<>>
    /\ prog = "none"
    /\ script = <<>>
    /\ pc = 1
    /\ results = <<>>

AddLine ==
    \E lineName \in LineNames :
        /\ Len(lines) < MaxLines
        /\ lines' = addLine(lines, lineName)
        /\ before' = platforms
        /\ last' = [op |-> "addLine", platformID |-> 0, time |-> 0,
                    result |-> "void"]
        /\ UNCHANGED <<platforms, drv>>

AddPlatform ==
    \E platformID \in PlatformIDs :
        /\ Len(platforms) < MaxPlatforms
        /\ platforms' = addPlatform(platforms, platformID)
        /\ before' = platforms
        /\ last' = [op |-> "addPlatform", platformID |-> platformID,
                    time |-> 0, result |-> "void"]
        /\ UNCHANGED <<lines, drv>>

ScheduleStoppage ==
    \E platformID \in PlatformIDs, time \in Times :
        LET r == scheduleStoppage(platforms, platformID, time) IN
        /\ r.platforms # platforms => TotalInstants(platforms) < MaxInstants
        /\ platforms' = r.platforms
        /\ before' = platforms
        /\ last' = [op |-> "scheduleStoppage", platformID |-> platformID,
                    time |-> time, result |-> r.result]
        /\ UNCHANGED <<lines, drv>>

ScheduleThrough ==
    \E platformID \in PlatformIDs, time \in Times :
        LET r == scheduleThrough(platforms, platformID, time) IN
        /\ r.platforms # platforms => TotalInstants(platforms) < MaxInstants
        /\ platforms' = r.platforms
        /\ before' = platforms
        /\ last' = [op |-> "scheduleThrough", platformID |-> platformID,
                    time |-> time, result |-> r.result]
        /\ UNCHANGED <<lines, drv>>

Next ==
    \/ AddLine
    \/ AddPlatform
    \/ ScheduleStoppage
    \/ ScheduleThrough

Spec == Init /\ [][Next]_vars

\* ------------------------------------------------------- running programs
\* What std::mktime makes of a std::tm that is zero but for tm_hour and
\* tm_min (31 December 1899, local time): where time_t can hold that day,
\* the day's midnight plus the time of day; where it cannot, -1.  Midnight
\* is kept relative to 00:00 UTC of that day, one value per zone offset;
\* the code uses instants only through their differences.
Midnights == {3600 * k : k \in -14..12}

MktimeEnvs ==
    {[ok |-> TRUE, midnight |-> m] : m \in Midnights}
        \cup {[ok |-> FALSE, midnight |-> 0]}

\* getTestTime(hour, minute) under env
getTestTime(env, hour, minute) ==
    IF env.ok THEN env.midnight + hour * 3600 + minute * 60 ELSE -1

Call(op, platformID, time, name) ==
    [op |-> op, platformID |-> platformID, time |-> time, name |-> name]

\* The calls main makes on its station, in order.
MainProgram(env) ==
    << Call("addLine", 0, 0, "Blue Line"),
       Call("addLine", 0, 0, "Yellow Line"),
       Call("addPlatform", 1, 0, ""),
       Call("addPlatform", 2, 0, ""),
       Call("scheduleStoppage", 1, getTestTime(env, 10, 0), ""),
       Call("scheduleThrough", 1, getTestTime(env, 10, 30), ""),
       Call("scheduleStoppage", 1, getTestTime(env, 10, 15), ""),
       Call("scheduleThrough", 1, getTestTime(env, 10, 5), "") >>

\* The booking scenario on a fresh platform p, the instants being those of
\* a day that starts at midnight: stoppage 10:00, through 10:30, stoppage
\* 10:15, through 10:35, through 10:20.
ScenarioProgram(p, midnight) ==
    << Call("addPlatform", p, 0, ""),
       Call("scheduleStoppage", p, midnight + 10 * 3600, ""),
       Call("scheduleThrough", p, midnight + 10 * 3600 + 30 * 60, ""),
       Call("scheduleStoppage", p, midnight + 10 * 3600 + 15 * 60, ""),
       Call("scheduleThrough", p, midnight + 10 * 3600 + 35 * 60, ""),
       Call("scheduleThrough", p, midnight + 10 * 3600 + 20 * 60, "") >>

\* Station::Station followed by the choice of the program and its clock.
ProgramInit ==
    /\ platforms = <<>>
    /\ lines = <<>>
    /\ last = NoCall
    /\ before = <<>>
    /\ pc = 1
    /\ results = <<>>
    /\ \/ /\ prog = "main"
          /\ \E env \in MktimeEnvs : script = MainProgram(env)
       \/ /\ prog = "scenario"
          /\ \E p \in PlatformIDs, m \in Midnights :
                script = ScenarioProgram(p, m)

Running == prog # "none" /\ pc <= Len(script)

\* The position after a booking call: the next call, or the end of the
\* program when PlatformNotFoundException left the call (main's try block
\* is left for its handler).
AfterBooking(result) ==
    IF result = "PlatformNotFoundException" THEN Len(script) + 1 ELSE pc + 1

RunAddLine ==
    /\ Running /\ script[pc].op = "addLine"
    /\ lines' = addLine(lines, script[pc].name)
    /\ before' = platforms
    /\ last' = [op |-> "addLine", platformID |-> 0, time |-> 0,
                result |-> "void"]
    /\ pc' = pc + 1
    /\ UNCHANGED <<platforms, prog, script, results>>

RunAddPlatform ==
    /\ Running /\ script[pc].op = "addPlatform"
    /\ platforms' = addPlatform(platforms, script[pc].platformID)
    /\ before' = platforms
    /\ last' = [op |-> "addPlatform", platformID |-> script[pc].platformID,
                time |-> 0, result |-> "void"]
    /\ pc' = pc + 1
    /\ UNCHANGED <<lines, prog, script, results>>

RunScheduleStoppage ==
    /\ Running /\ script[pc].op = "scheduleStoppage"
    /\ LET r == scheduleStoppage(platforms, script[pc].platformID,
                                 script[pc].time) IN
       /\ platforms' = r.platforms
       /\ before' = platforms
       /\ last' = [op |-> "scheduleStoppage",
                   platformID |-> script[pc].platformID,
                   time |-> script[pc].time, result |-> r.result]
       /\ results' = Append(results, r.result)
       /\ pc' = AfterBooking(r.result)
    /\ UNCHANGED <<lines, prog, script>>

RunScheduleThrough ==
    /\ Running /\ script[pc].op = "scheduleThrough"
    /\ LET r == scheduleThrough(platforms, script[pc].platformID,
                                script[pc].time) IN
       /\ platforms' = r.platforms
       /\ before' = platforms
       /\ last' = [op |-> "scheduleThrough",
                   platformID |-> script[pc].platformID,
                   time |-> script[pc].time, result |-> r.result]
       /\ results' = Append(results, r.result)
       /\ pc' = AfterBooking(r.result)
    /\ UNCHANGED <<lines, prog, script>>

ProgramNext ==
    \/ RunAddLine
    \/ RunAddPlatform
    \/ RunScheduleStoppage
    \/ RunScheduleThrough

ProgramSpec == ProgramInit /\ [][ProgramNext]_vars

\* ------------------------------------------------------------ properties
Bookings == {"scheduleStoppage", "scheduleThrough"}

\* The platform a booking call for platformID works on, in the platforms
\* it started from (0: none).
Target == FindPlatform(before, last.platformID)

IsPrefix(s, t) == Len(s) <= Len(t) /\ \A i \in DOMAIN s : s[i] = t[i]

\* Smallest distance between time and an instant of the sequence s.
NearestGap(s, time) ==
    CHOOSE g \in {Abs(s[i] - time) : i \in DOMAIN s} :
        \A i \in DOMAIN s : g <= Abs(s[i] - time)

\* C1: on every platform, any two entries at different positions of the
\* recorded stoppage instants are at least 1800 seconds apart.
C1_StoppageSeparation ==
    \A i \in DOMAIN platforms :
        \A a, b \in DOMAIN platforms[i].stoppageTimings :
            a # b => Abs(platforms[i].stoppageTimings[a]
                         - platforms[i].stoppageTimings[b]) >= 1800

\* A platform holds three stoppages, the last one added by the last call.
C1_Witness ==
    /\ last.op = "scheduleStoppage" /\ last.result = "true"
    /\ \E i \in DOMAIN platforms : Len(platforms[i].stoppageTimings) >= 3

\* C2: on every platform, any two entries at different positions of the
\* recorded through instants are at least 600 seconds apart.
C2_ThroughSeparation ==
    \A i \in DOMAIN platforms :
        \A a, b \in DOMAIN platforms[i].throughTimings :
            a # b => Abs(platforms[i].throughTimings[a]
                         - platforms[i].throughTimings[b]) >= 600

\* A platform holds three through instants, the last added by the last call.
C2_Witness ==
    /\ last.op = "scheduleThrough" /\ last.result = "true"
    /\ \E i \in DOMAIN platforms : Len(platforms[i].throughTimings) >= 3

\* C3: a booking call that fails (false, or PlatformNotFoundException)
\* leaves every platform's stoppage and through instants as they were.
C3_FailedCallChangesNothing ==
    (last.op \in Bookings /\ last.result # "true") => platforms = before

\* A booking was refused on a platform that holds instants of both classes.
C3_Witness ==
    /\ last.op \in Bookings /\ last.result = "false"
    /\ Target # 0
    /\ before[Target].stoppageTimings # <<>>
    /\ before[Target].throughTimings # <<>>

\* C4: a booking call for an id no platform of the station has ends with
\* PlatformNotFoundException, for every time, and changes no platform.
C4_UnknownPlatformNotFound ==
    (last.op \in Bookings
        /\ \A i \in DOMAIN before : before[i].id # last.platformID)
    => (last.result = "PlatformNotFoundException" /\ platforms = before)

\* A booking for an id never added, on a station that has another platform
\* with recorded instants.
C4_Witness ==
    /\ last.op \in Bookings
    /\ before # <<>>
    /\ \A i \in DOMAIN before : before[i].id # last.platformID
    /\ \E i \in DOMAIN before : before[i].stoppageTimings # <<>>
    /\ last.result = "PlatformNotFoundException"

\* C5: on an existing platform a booking succeeds exactly when every
\* recorded instant of its class is at least the class's window away from
\* time (a condition on the set of instants, not on their order), and on
\* success the class's instants are the old ones with time appended once;
\* nothing else changes.
C5_SucceedsIffClear ==
    /\ (last.op = "scheduleStoppage" /\ Target # 0) =>
          /\ last.result = "true"
               <=> \A t \in Range(before[Target].stoppageTimings) :
                       Abs(t - last.time) >= 1800
          /\ last.result = "true" =>
                platforms = [before EXCEPT ![Target].stoppageTimings =
                                              Append(@, last.time)]
    /\ (last.op = "scheduleThrough" /\ Target # 0) =>
          /\ last.result = "true"
               <=> \A t \in Range(before[Target].throughTimings) :
                       Abs(t - last.time) >= 600
          /\ last.result = "true" =>
                platforms = [before EXCEPT ![Target].throughTimings =
                                              Append(@, last.time)]

\* A through booking accepted at a time that the stoppage window would have
\* refused: two through instants were recorded, one less than 1800 s away.
C5_Witness ==
    /\ last.op = "scheduleThrough" /\ last.result = "true" /\ Target # 0
    /\ Len(before[Target].throughTimings) = 2
    /\ \E t \in Range(before[Target].throughTimings) :
           Abs(t - last.time) < 1800

\* C6: a stoppage whose nearest recorded stoppage is exactly 1800 s away
\* (earlier or later) is accepted and one 1799 s away is refused; a through
\* event at exactly 600 s is accepted and one at 599 s is refused.
C6_BoundaryAccepted ==
    /\ (last.op = "scheduleStoppage" /\ Target # 0
            /\ before[Target].stoppageTimings # <<>>) =>
          LET gap == NearestGap(before[Target].stoppageTimings, last.time) IN
          /\ gap = 1800 => last.result = "true"
          /\ gap = 1799 => last.result = "false"
    /\ (last.op = "scheduleThrough" /\ Target # 0
            /\ before[Target].throughTimings # <<>>) =>
          LET gap == NearestGap(before[Target].throughTimings, last.time) IN
          /\ gap = 600 => last.result = "true"
          /\ gap = 599 => last.result = "false"

\* A stoppage accepted exactly 1800 s before the nearest recorded one.
C6_Witness ==
    /\ last.op = "scheduleStoppage" /\ last.result = "true" /\ Target # 0
    /\ before[Target].stoppageTimings # <<>>
    /\ NearestGap(before[Target].stoppageTimings, last.time) = 1800
    /\ \E t \in Range(before[Target].stoppageTimings) : t - last.time = 1800

\* Sequences of instants of length at most 2, as contents of the other class.
OtherContents ==
    {<<>>} \cup {<<t>> : t \in Times} \cup {<<t, u>> : t \in Times, u \in Times}

\* C7: the outcome of a stoppage booking is the same for every content of
\* the platform's through instants, and the outcome of a through booking
\* is the same for every content of its stoppage instants; a booking at an
\* instant recorded in the other class is accepted when its own class is
\* clear.
C7_ClassesIndependent ==
    /\ (last.op = "scheduleStoppage" /\ Target # 0) =>
          /\ \A th \in OtherContents :
                scheduleStoppage([before EXCEPT ![Target].throughTimings = th],
                                 last.platformID, last.time).result
                  = last.result
          /\ (/\ last.time \in Range(before[Target].throughTimings)
              /\ \A t \in Range(before[Target].stoppageTimings) :
                     Abs(t - last.time) >= 1800)
             => last.result = "true"
    /\ (last.op = "scheduleThrough" /\ Target # 0) =>
          /\ \A st \in OtherContents :
                scheduleThrough([before EXCEPT ![Target].stoppageTimings = st],
                                last.platformID, last.time).result
                  = last.result
          /\ (/\ last.time \in Range(before[Target].stoppageTimings)
              /\ \A t \in Range(before[Target].throughTimings) :
                     Abs(t - last.time) >= 600)
             => last.result = "true"

\* A stoppage accepted at the very instant of a recorded through event of
\* the same platform.
C7_Witness ==
    /\ last.op = "scheduleStoppage" /\ last.result = "true" /\ Target # 0
    /\ last.time \in Range(before[Target].throughTimings)
    /\ last.time \in Range(platforms[Target].stoppageTimings)
    /\ last.time \in Range(platforms[Target].throughTimings)

\* C8: no booking call ends with SchedulingConflictException: a conflict
\* on an existing platform is the return value false, and the timelines
\* the next attempt is decided on are those from before the refused one.
C8_ConflictNeverEscapes ==
    /\ last.result # "SchedulingConflictException"
    /\ (last.op \in Bookings /\ Target # 0 /\ last.result # "true")
          => (last.result = "false" /\ platforms = before)

\* A through booking refused for a conflict, after which the station still
\* has room for further bookings.
C8_Witness ==
    /\ last.op = "scheduleThrough" /\ last.result = "false" /\ Target # 0
    /\ \E t \in Range(before[Target].throughTimings) :
           Abs(t - last.time) < 600
    /\ TotalInstants(platforms) < MaxInstants

\* C9: no two platforms held by the station have the same id.
C9_UniquePlatformIDs ==
    \A i, j \in DOMAIN platforms :
        i # j => platforms[i].id # platforms[j].id

\* C10: in every step each platform keeps the instants it had, in place,
\* and a platform's instants differ after the step only when the step is a
\* booking call that returned true.
C10_MonotonicStep ==
    /\ Len(platforms) <= Len(platforms')
    /\ \A i \in DOMAIN platforms :
          /\ platforms'[i].id = platforms[i].id
          /\ IsPrefix(platforms[i].stoppageTimings,
                      platforms'[i].stoppageTimings)
          /\ IsPrefix(platforms[i].throughTimings,
                      platforms'[i].throughTimings)
          /\ (\/ platforms'[i].stoppageTimings # platforms[i].stoppageTimings
              \/ platforms'[i].throughTimings # platforms[i].throughTimings)
             => (last'.op \in Bookings /\ last'.result = "true")

C10_MonotonicGrowth == [][C10_MonotonicStep]_vars

\* A successful booking has extended a list that already held an instant,
\* on a station whose other platform holds instants too.
C10_Witness ==
    /\ last.op \in Bookings /\ last.result = "true" /\ Target # 0
    /\ Len(platforms[Target].stoppageTimings)
         + Len(platforms[Target].throughTimings) >= 2
    /\ \E i \in DOMAIN platforms :
          i # Target /\ platforms[i].stoppageTimings # <<>>

\* Contents of another platform: at most one instant in each class.
OtherPlatformContents ==
    LET one == {<<>>} \cup {<<t>> : t \in Times} IN
    {[stoppageTimings |-> st, throughTimings |-> th] : st \in one, th \in one}

\* C12: on a station whose platform ids are distinct, a booking call for
\* platform p leaves every other platform as it was, and its outcome is the
\* same whatever the other platforms' stoppage and through instants are.
C12_NoCrossPlatformRules ==
    (/\ last.op \in Bookings
     /\ \A i, j \in DOMAIN before : i # j => before[i].id # before[j].id
     /\ \E i \in DOMAIN before : before[i].id = last.platformID)
    => \A j \in DOMAIN before :
          before[j].id # last.platformID =>
             /\ platforms[j] = before[j]
             /\ \A c \in OtherPlatformContents :
                   LET alt == [before EXCEPT
                                  ![j].stoppageTimings = c.stoppageTimings,
                                  ![j].throughTimings = c.throughTimings]
                   IN IF last.op = "scheduleStoppage"
                      THEN scheduleStoppage(alt, last.platformID,
                                            last.time).result = last.result
                      ELSE scheduleThrough(alt, last.platformID,
                                           last.time).result = last.result

\* A stoppage accepted on one platform at an instant within the window of a
\* stoppage recorded on the other platform.
C12_Witness ==
    /\ last.op = "scheduleStoppage" /\ last.result = "true"
    /\ Len(before) = 2 /\ before[1].id # before[2].id
    /\ \E j \in DOMAIN before :
          /\ before[j].id # last.platformID
          /\ \E t \in Range(before[j].stoppageTimings) :
                Abs(t - last.time) < 1800

\* C14: addPlatform(id) appends one platform with that id and no recorded
\* instant and leaves the platforms already held as they were; addLine
\* changes no platform; both return normally.
C14_AddersFrame ==
    /\ last.op = "addPlatform" =>
          /\ last.result = "void"
          /\ Len(platforms) = Len(before) + 1
          /\ platforms[Len(platforms)] =
                [id |-> last.platformID, stoppageTimings |-> <<>>,
                 throughTimings |-> <<>>]
          /\ \A i \in DOMAIN before : platforms[i] = before[i]
    /\ last.op = "addLine" =>
          /\ last.result = "void"
          /\ platforms = before

\* A platform was added, under an id already held, to a station whose
\* first platform has recorded instants.
C14_Witness ==
    /\ last.op = "addPlatform"
    /\ before # <<>>
    /\ before[1].id = last.platformID
    /\ before[1].stoppageTimings # <<>>
    /\ before[1].throughTimings # <<>>

\* C15: a booking call for an id that some platform of the station has
\* never ends with PlatformNotFoundException, wherever that platform sits;
\* it ends with true or with false.
C15_KnownPlatformFound ==
    (last.op \in Bookings
        /\ \E i \in DOMAIN before : before[i].id = last.platformID)
    => last.result \in {"true", "false"}

\* A booking was refused on the platform added second, the first one
\* having another id.
C15_Witness ==
    /\ last.op \in Bookings /\ last.result = "false"
    /\ Len(before) = 2
    /\ before[1].id # last.platformID
    /\ before[2].id = last.platformID

\* C16: among platforms with the same id only the one added first ever
\* records instants: every later one stays empty, a successful booking for
\* the id appends to the first one, and a booking is refused exactly when
\* the first one has an instant of the class within the window.
C16_FirstPlatformWins ==
    /\ \A i, j \in DOMAIN platforms :
          (i < j /\ platforms[i].id = platforms[j].id) =>
             /\ platforms[j].stoppageTimings = <<>>
             /\ platforms[j].throughTimings = <<>>
    /\ \A i, j \in DOMAIN before :
          (/\ i < j /\ before[i].id = before[j].id
           /\ \A k \in 1..(i - 1) : before[k].id # before[i].id
           /\ last.op \in Bookings /\ last.platformID = before[i].id)
          => /\ platforms[j] = before[j]
             /\ last.op = "scheduleStoppage" =>
                   /\ last.result = "false" <=>
                         \E t \in Range(before[i].stoppageTimings) :
                            Abs(t - last.time) < 1800
                   /\ last.result = "true" =>
                         platforms[i].stoppageTimings =
                            Append(before[i].stoppageTimings, last.time)
             /\ last.op = "scheduleThrough" =>
                   /\ last.result = "false" <=>
                         \E t \in Range(before[i].throughTimings) :
                            Abs(t - last.time) < 600
                   /\ last.result = "true" =>
                         platforms[i].throughTimings =
                            Append(before[i].throughTimings, last.time)

\* Two platforms with the same id were on the station when a booking for
\* that id was accepted, the first of them already holding an instant.
C16_Witness ==
    /\ last.op \in Bookings /\ last.result = "true"
    /\ Len(before) = 2
    /\ before[1].id = before[2].id
    /\ before[1].id = last.platformID
    /\ before[1].stoppageTimings # <<>> \/ before[1].throughTimings # <<>>

\* What a booking call of the class op for (platformID, time) would return
\* on the platforms ps.
Outcome(ps, op, platformID, time) ==
    IF op = "scheduleStoppage"
    THEN scheduleStoppage(ps, platformID, time).result
    ELSE scheduleThrough(ps, platformID, time).result

\* C17: a booking call for (p, class, t) on an existing platform that has
\* returned, true or false, leaves the station in a state where the same
\* call returns false, and every step of the run keeps a call that returns
\* false returning false; so each later call for (p, class, t) returns false.
C17_RepeatRefusedStep ==
    /\ (last'.op \in Bookings /\ last'.result \in {"true", "false"})
          => Outcome(platforms', last'.op, last'.platformID, last'.time)
                = "false"
    /\ platforms' # platforms =>
          \A op \in Bookings, p \in PlatformIDs, t \in Times :
             Outcome(platforms, op, p, t) = "false"
                => Outcome(platforms', op, p, t) = "false"

C17_RepeatRefused == [][C17_RepeatRefusedStep]_vars

\* A through booking was refused at an instant that an earlier successful
\* call recorded on that platform.
C17_Witness ==
    /\ last.op = "scheduleThrough" /\ last.result = "false" /\ Target # 0
    /\ last.time \in Range(before[Target].throughTimings)

Finished == prog # "none" /\ pc > Len(script)

\* C11: the scenario on a fresh platform (stoppage 10:00, through 10:30,
\* stoppage 10:15, through 10:35, through 10:20) ends with the outcomes
\* true, true, false, false, true, and the platform then records the
\* stoppage 10:00 and the through instants 10:30 and 10:20.
C11_ScenarioOutcomes ==
    (prog = "scenario" /\ Finished) =>
        /\ results = <<"true", "true", "false", "false", "true">>
        /\ Len(platforms) = 1
        /\ platforms[1].stoppageTimings = <<script[2].time>>
        /\ platforms[1].throughTimings = <<script[3].time, script[6].time>>

\* The scenario has run to its end, all five bookings attempted.
C11_Witness ==
    /\ prog = "scenario" /\ Finished
    /\ Len(results) = 5
    /\ last.op = "scheduleThrough" /\ last.time = script[6].time

\* C13: main's four bookings on platform 1 (stoppage 10:00, through 10:30,
\* stoppage 10:15, through 10:05) end with true, true, false, false.
C13_MainDemoOutcomes ==
    (prog = "main" /\ Finished) =>
        results = <<"true", "true", "false", "false">>

====
